---- MODULE Spec2Model ----
(***************************************************************************)
(* Model of src/state/swap/hooks.tsx: the swap widget's derived view       *)
(* state (useDerivedSwapInfo), the URL query parser                        *)
(* (queryParametersToSwapState) and the URL-to-store initializer           *)
(* (useDefaultsFromURLSearch).                                             *)
(*                                                                         *)
(* JavaScript values are records [t |-> type tag, v |-> payload]; a string *)
(* is the sequence of its characters, so that parsing, lower-casing and    *)
(* pattern matching are computed character by character.                   *)
(***************************************************************************)
EXTENDS Integers, Sequences, FiniteSets, TLC

VARIABLES
    \* ---- URL parser / initializer (useDefaultsFromURLSearch)
    parsedQs,          \* useParsedQueryString(): the five query parameters
    parsedSwapState,   \* useMemo(queryParametersToSwapState(parsedQs)), or NotRendered
    chainId,           \* useChainId(): 0 when absent
    dispatchId,        \* identity of the dispatch function
    effectDeps,        \* dependency list of the last committed effect, or NoDeps
    swap,              \* the swap slice of the store
    dispatched,        \* the action dispatched by the last step, or NoAction
    \* ---- useDerivedSwapInfo
    account,           \* useAccount()
    recipient,         \* useSwapState().recipient
    inputCoin,         \* useCoin(inputCurrencyId)
    outputCoin,        \* useCoin(outputCurrencyId)
    parsedAmount,      \* tryParseCoinAmount(...): TRUE when an amount was parsed
    allCoinBalances,   \* useAllCoinBalance(): coin -> raw balance
    trade,             \* useAnimeSwapTempTrade(...): [state, trade]
    allowedSlippage,   \* reference of the Decimal built in this render
    memoDeps,          \* dependency list the inputError memo was computed for
    inputError         \* the memoised inputError returned by the hook

vars == <<parsedQs, parsedSwapState, chainId, dispatchId, effectDeps, swap,
          dispatched, account, recipient, inputCoin, outputCoin, parsedAmount,
          allCoinBalances, trade, allowedSlippage, memoDeps, inputError>>

urlVars == <<parsedQs, parsedSwapState, chainId, dispatchId, effectDeps, swap,
             dispatched>>

derivedVars == <<account, recipient, inputCoin, outputCoin, parsedAmount,
                 allCoinBalances, trade, allowedSlippage, memoDeps, inputError>>

-----------------------------------------------------------------------------
(* JavaScript values *)

Str(s) == [t |-> "string", v |-> s]

Undefined == [t |-> "undefined", v |-> <<>>]

Null == [t |-> "null", v |-> <<>>]

False == [t |-> "boolean", v |-> <<>>]

\* a query parameter given more than once: qs yields an array, not a string
ArrayValue == [t |-> "object", v |-> <<>>]

IsString(x) == x.t = "string"

\* ToBoolean on the values above: "", null, undefined and false are falsy
Truthy(x) == \/ x.t = "object"
             \/ x.t = "string" /\ x.v # <<>>

\* a ?? b
Coalesce(a, b) == IF a.t \in {"null", "undefined"} THEN b ELSE a

-----------------------------------------------------------------------------
(* Characters *)

UpperChars == <<"A", "B", "C", "D", "E", "F", "G", "H", "I", "J", "K", "L", "M",
                "N", "O", "P", "Q", "R", "S", "T", "U", "V", "W", "X", "Y", "Z">>

LowerChars == <<"a", "b", "c", "d", "e", "f", "g", "h", "i", "j", "k", "l", "m",
                "n", "o", "p", "q", "r", "s", "t", "u", "v", "w", "x", "y", "z">>

DigitChars == <<"0", "1", "2", "3", "4", "5", "6", "7", "8", "9">>

Range(s) == {s[i] : i \in DOMAIN s}

Upper == Range(UpperChars)

Lower == Range(LowerChars)

Digit == Range(DigitChars)

AlphaNum == Upper \cup Lower \cup Digit

HexDigit == Digit \cup {"a", "b", "c", "d", "e", "f", "A", "B", "C", "D", "E", "F"}

\* \w of a JavaScript regular expression
WordChar == AlphaNum \cup {"_"}

WhiteSpace == {" "}

AllIn(s, from, to, class) == \A i \in from..to : s[i] \in class

Repeat(c, n) == [i \in 1..n |-> c]

-----------------------------------------------------------------------------
(* The address validator, utils/isAddress *)

AddressHexDigits == 40

\* a well-formed address: 0x followed by AddressHexDigits hexadecimal digits
IsWellFormedAddress(s) ==
    /\ Len(s) = AddressHexDigits + 2
    /\ s[1] = "0"
    /\ s[2] = "x"
    /\ AllIn(s, 3, Len(s), HexDigit)

\* isAddress(value: any): string | false
isAddress(value) ==
    IF IsString(value) /\ IsWellFormedAddress(value.v) THEN value ELSE False

-----------------------------------------------------------------------------
(* URL state parser *)

INPUT == "INPUT"

OUTPUT == "OUTPUT"

NativeCoin == <<"0", "x", "1", ":", ":", "a", "p", "t", "o", "s", "_", "c", "o", "i", "n", ":", ":", "A", "p", "t", "o", "s", "C", "o", "i", "n">>

\* the chars of a parameter sanitised to a string; '' is the empty sequence
parseCurrencyFromURLParameter(urlParam) ==
    IF IsString(urlParam) /\ Truthy(isAddress(urlParam))
    THEN isAddress(urlParam).v
    ELSE <<>>

StartsWith(s, from, word) ==
    /\ from + Len(word) - 1 <= Len(s)
    /\ \A i \in 1..Len(word) : s[from + i - 1] = word[i]

\* index of the first character that is not white space (Len(s) + 1 if none)
SkipWhiteSpace(s) ==
    IF \E i \in 1..Len(s) : s[i] \notin WhiteSpace
    THEN CHOOSE i \in 1..Len(s) :
             /\ s[i] \notin WhiteSpace
             /\ \A j \in 1..(i - 1) : s[j] \in WhiteSpace
    ELSE Len(s) + 1

\* parseFloat(s), up to what isNaN and isFinite see of it: the longest prefix of
\* the trimmed string that is a StrDecimalLiteral decides the result, and one
\* exists exactly when, after an optional sign, the string goes on with
\* Infinity, with a digit, or with a dot and a digit.
parseFloat(s) ==
    LET b == SkipWhiteSpace(s)
        j == IF b <= Len(s) /\ s[b] \in {"+", "-"} THEN b + 1 ELSE b
    IN  IF StartsWith(s, j, <<"I", "n", "f", "i", "n", "i", "t", "y">>) THEN "Infinity"
        ELSE IF j <= Len(s) /\ s[j] \in Digit THEN "finite"
        ELSE IF j + 1 <= Len(s) /\ s[j] = "." /\ s[j + 1] \in Digit THEN "finite"
        ELSE "NaN"

isNaN(number) == number = "NaN"

parseTokenAmountURLParameter(urlParam) ==
    IF IsString(urlParam) /\ ~isNaN(parseFloat(urlParam.v)) THEN urlParam.v ELSE <<>>

LowerOf(c) ==
    IF c \in Upper
    THEN LowerChars[CHOOSE i \in DOMAIN UpperChars : UpperChars[i] = c]
    ELSE c

toLowerCase(s) == [i \in DOMAIN s |-> LowerOf(s[i])]

CaseSensitiveFieldMutant(urlParam) ==
    IF IsString(urlParam) /\ urlParam.v = <<"o", "u", "t", "p", "u", "t">> THEN OUTPUT ELSE INPUT

parseIndependentFieldURLParameter(urlParam) ==
    IF IsString(urlParam) /\ toLowerCase(urlParam.v) = <<"o", "u", "t", "p", "u", "t">> THEN OUTPUT ELSE INPUT

\* [-a-zA-Z0-9@:%._+~#=]
NameLabelChar == AlphaNum \cup {"-", "@", ":", "%", ".", "_", "+", "~", "#", "="}

\* [a-zA-Z0-9()]
NameTldChar == AlphaNum \cup {"(", ")"}

\* [-a-zA-Z0-9()@:%_+.~#?&/=]
NameTailChar == AlphaNum \cup {"-", "(", ")", "@", ":", "%", "_", "+", ".", "~",
                               "#", "?", "&", "/", "="}

NameLabelMax == 256

NameTldMax == 6

\* \b after position j: exactly one side of the gap is a word character
WordBoundaryAfter(s, j) ==
    (j >= 1 /\ s[j] \in WordChar) # (j + 1 <= Len(s) /\ s[j + 1] \in WordChar)

\* ENS_NAME_REGEX.test(s): dot is the position of the literal dot, k the length
\* of the group after it
ENS_NAME_REGEX(s) ==
    \E dot \in {i \in 2..Len(s) : s[i] = "."} : \E k \in 1..NameTldMax :
        /\ dot - 1 <= NameLabelMax
        /\ AllIn(s, 1, dot - 1, NameLabelChar)
        /\ dot + k <= Len(s)
        /\ AllIn(s, dot + 1, dot + k, NameTldChar)
        /\ WordBoundaryAfter(s, dot + k)
        /\ AllIn(s, dot + k + 1, Len(s), NameTailChar)

\* ADDRESS_REGEX.test(s)
ADDRESS_REGEX(s) ==
    /\ Len(s) = AddressHexDigits + 2
    /\ s[1] = "0"
    /\ s[2] = "x"
    /\ AllIn(s, 3, Len(s), HexDigit)

validatedRecipient(r) ==
    IF ~IsString(r) THEN Null
    ELSE IF Truthy(isAddress(r)) THEN isAddress(r)
    ELSE IF ENS_NAME_REGEX(r.v) THEN r
    ELSE IF ADDRESS_REGEX(r.v) THEN r
    ELSE Null

DefaultIgnoresFieldMutant(inputCurrency, outputCurrency, typedValue, independentField) ==
    inputCurrency = <<>> /\ outputCurrency = <<>> /\ typedValue = <<>>

\* the condition under which the native currency is selected
DefaultsToNative(inputCurrency, outputCurrency, typedValue, independentField) ==
    /\ inputCurrency = <<>>
    /\ outputCurrency = <<>>
    /\ typedValue = <<>>
    /\ independentField = INPUT

KeepsIdenticalOutputMutant(inputCurrency, outputCurrency) == outputCurrency

\* the else branch: clear output if identical
ClearIdenticalOutput(inputCurrency, outputCurrency) ==
    IF inputCurrency = outputCurrency THEN <<>> ELSE outputCurrency

CurrencyId(currency) == IF currency = <<>> THEN Null ELSE Str(currency)

queryParametersToSwapState(qs) ==
    LET inputCurrency0 == parseCurrencyFromURLParameter(qs.inputCurrency)
        outputCurrency0 == parseCurrencyFromURLParameter(qs.outputCurrency)
        typedValue == parseTokenAmountURLParameter(qs.exactAmount)
        independentField == parseIndependentFieldURLParameter(qs.exactField)
        default == DefaultsToNative(inputCurrency0, outputCurrency0, typedValue,
                                    independentField)
        inputCurrency == IF default THEN NativeCoin ELSE inputCurrency0
        outputCurrency == IF default THEN outputCurrency0
                          ELSE ClearIdenticalOutput(inputCurrency0, outputCurrency0)
    IN  [INPUT |-> [currencyId |-> CurrencyId(inputCurrency)],
         OUTPUT |-> [currencyId |-> CurrencyId(outputCurrency)],
         typedValue |-> typedValue,
         independentField |-> independentField,
         recipient |-> validatedRecipient(qs.recipient)]

-----------------------------------------------------------------------------
(* Query strings the parser is applied to *)

AddrA == Str(<<"0", "x">> \o Repeat("a", AddressHexDigits))

AddrB == Str(<<"0", "x">> \o Repeat("B", AddressHexDigits))

\* one hexadecimal digit short of an address
ShortAddr == Str(<<"0", "x">> \o Repeat("a", AddressHexDigits - 1))

NameEth == Str(<<"a", ".", "e", "t", "h">>)

CurrencyParams == {Undefined, ArrayValue, AddrA, AddrB, ShortAddr}

AmountParams == {Undefined, ArrayValue, Str(<<>>), Str(<<"1", ".", "5">>), Str(<<".", "5">>), Str(<<"a", "b", "c">>), Str(<<"1", "a", "b", "c">>), Str(<<"I", "n", "f", "i", "n", "i", "t", "y">>)}

FieldParams == {Undefined, ArrayValue, Str(<<"o", "u", "t", "p", "u", "t">>), Str(<<"O", "U", "T", "P", "U", "T">>), Str(<<"o", "u", "t", "P", "u", "t">>), Str(<<"i", "n", "p", "u", "t">>), Str(<<"o", "u", "t", "p", "u", "t", "s">>)}

RecipientParams == {Undefined, AddrA, ShortAddr, NameEth, Str(<<"a", ".", "b", "!">>)}

Queries(ic, oc, am, fl, rc) ==
    [inputCurrency : ic, outputCurrency : oc, exactAmount : am, exactField : fl,
     recipient : rc]

AllQueries == Queries(CurrencyParams, CurrencyParams, AmountParams, FieldParams,
                      RecipientParams)

EmptyQuery == [inputCurrency |-> Undefined, outputCurrency |-> Undefined,
               exactAmount |-> Undefined, exactField |-> Undefined,
               recipient |-> Undefined]

NotRendered == [t |-> "not rendered"]

-----------------------------------------------------------------------------
(* useDerivedSwapInfo *)

MaxAmount == 10

\* raw amounts used for balances and quotes: one digit and two digit numbers
Amounts == {0, MaxAmount - 1, MaxAmount}

\* a Decimal object holding n
Decimal(n) == [t |-> "object", v |-> <<n>>]

\* a Coin object
Coin(address, symbol) == [t |-> "object", v |-> <<address, symbol>>]

Coins == {Coin("0x1::aptos_coin::AptosCoin", "APT"), Coin("0x1::usdt::USDT", "USDT")}

CoinAddresses == {c.v[1] : c \in Coins}

symbol(coin) == coin.v[2]

Accounts == {AddrA}

StoreRecipients == {Null, Str(<<>>), AddrB, NameEth}

LOADING == "LOADING"

NO_ROUTE_FOUND == "NO_ROUTE_FOUND"

VALID == "VALID"

\* a Trade object, of which the hook reads maximumAmountIn alone
Trade(maxIn) == [t |-> "object", v |-> <<maxIn>>]

\* the hook's results: a trade comes with VALID and with no other state
TradeResults ==
    {[state |-> VALID, trade |-> Trade(m)] : m \in Amounts \ {0}}
        \cup {[state |-> NO_ROUTE_FOUND, trade |-> Undefined]}

TradeLoading == [state |-> LOADING, trade |-> Undefined]

\* <Trans>message</Trans>, a React element
Trans(message, values) == [t |-> "object", v |-> <<message>> \o values]

ConnectWallet == Trans("Connect Wallet", <<>>)

SelectACoin == Trans("Select a coin", <<>>)

EnterAnAmount == Trans("Enter an amount", <<>>)

EnterARecipient == Trans("Enter a recipient", <<>>)

InsufficientBalance(sym) == Trans("Insufficient {0} balance", <<sym>>)

NoRouteFound == Trans("No route found", <<>>)

\* reading .symbol of a null coin throws
TypeError == [t |-> "throw", v |-> <<"TypeError">>]

\* const to = (recipient === null ? account : recipient) ?? null
ResolveTo(rcp, acc) == Coalesce(IF rcp = Null THEN acc ELSE rcp, Null)

\* Utils.d(value): the Decimal of value, of 0 when value is undefined
UtilsD(value) == IF value = Undefined THEN Decimal(0) ELSE value

\* coinBalances[field] = Utils.d(allCoinBalances[coin?.address])
CoinBalance(balances, coin) ==
    UtilsD(IF Truthy(coin) /\ coin.v[1] \in DOMAIN balances
           THEN Decimal(balances[coin.v[1]])
           ELSE Undefined)

\* trade.trade?.maximumAmountIn
MaximumAmountIn(tr) == IF tr.trade = Undefined THEN Undefined ELSE Decimal(tr.trade.v[1])

RECURSIVE DigitsOf(_)
\* the decimal digits of a natural number, as the indices 0..9
DigitsOf(n) == IF n < 10 THEN <<n>> ELSE Append(DigitsOf(n \div 10), n % 10)

\* Decimal.prototype.valueOf(): a string, here in plain notation
DecimalValueOf(d) == DigitsOf(d.v[1])

\* a < b on two strings: by code units, a proper prefix being smaller
StringLess(a, b) ==
    \/ \E i \in 1..Len(a) :
           /\ i <= Len(b)
           /\ \A j \in 1..(i - 1) : a[j] = b[j]
           /\ a[i] < b[i]
    \/ Len(a) < Len(b) /\ \A j \in 1..Len(a) : a[j] = b[j]

\* balanceIn < amountIn on two Decimal objects: the relational operator takes
\* each operand's valueOf(), and two strings compare as strings
DecimalLess(a, b) == StringLess(DecimalValueOf(a), DecimalValueOf(b))

StepAccount(acc) == IF ~Truthy(acc) THEN ConnectWallet ELSE Undefined

OverwritingSelectMutant(err, cIn, cOut) ==
    IF ~Truthy(cIn) \/ ~Truthy(cOut) THEN SelectACoin ELSE err

StepCoins(err, cIn, cOut) ==
    IF ~Truthy(cIn) \/ ~Truthy(cOut) THEN Coalesce(err, SelectACoin) ELSE err

StepAmount(err, amount) ==
    IF ~Truthy(amount) THEN Coalesce(err, EnterAnAmount) ELSE err

OverwritingRecipientMutant(err, to) ==
    IF ~Truthy(to) \/ ~Truthy(isAddress(to)) THEN EnterARecipient ELSE err

StepRecipient(err, to) ==
    LET formattedTo == isAddress(to)
    IN  IF ~Truthy(to) \/ ~Truthy(formattedTo)
        THEN Coalesce(err, EnterARecipient)
        ELSE err

\* the condition of the balance check
BalanceCheckFires(balanceIn, amountIn) ==
    Truthy(balanceIn) /\ Truthy(amountIn) /\ DecimalLess(balanceIn, amountIn)

StepBalance(err, balanceIn, amountIn, cIn) ==
    IF BalanceCheckFires(balanceIn, amountIn)
    THEN IF Truthy(cIn) THEN InsufficientBalance(symbol(cIn)) ELSE TypeError
    ELSE err

StepRoute(err, state) ==
    IF err = TypeError THEN err
    ELSE IF state = NO_ROUTE_FOUND THEN Coalesce(err, NoRouteFound)
    ELSE err

\* the body of the inputError memo
ComputeInputError(acc, cIn, cOut, amount, to, balances, tr) ==
    LET e1 == StepAccount(acc)
        e2 == StepCoins(e1, cIn, cOut)
        e3 == StepAmount(e2, amount)
        e4 == StepRecipient(e3, to)
        e5 == StepBalance(e4, CoinBalance(balances, cIn), MaximumAmountIn(tr), cIn)
    IN  StepRoute(e5, tr.state)

StableSlippageMutant(previous) == previous

RefSpace == 2

\* const allowedSlippage = Utils.d(50).div(10000): a new Decimal object in every
\* render, so a reference different from the previous render's one
NewAllowedSlippage(previous) == (previous + 1) % RefSpace

\* the dependency list of the inputError memo; coins and coinBalances are
\* themselves memoised on the values listed for them
InputErrorDeps(acc, slippage, cIn, cOut, balances, amount, to, tr) ==
    <<acc, slippage, <<cIn, cOut>>, <<balances, cIn, cOut>>, amount, to, tr.trade>>

NoDeps == <<>>

\* one render of useDerivedSwapInfo on the new hook values
RenderDerived ==
    /\ allowedSlippage' = NewAllowedSlippage(allowedSlippage)
    /\ LET to == ResolveTo(recipient', account')
           deps == InputErrorDeps(account', allowedSlippage', inputCoin', outputCoin',
                                  allCoinBalances', parsedAmount', to, trade')
       IN  /\ memoDeps' = deps
           /\ inputError' =
                  IF deps # memoDeps
                  THEN ComputeInputError(account', inputCoin', outputCoin',
                                         parsedAmount', to, allCoinBalances', trade')
                  ELSE inputError

\* the quote hook drops its result when its inputs change and has one to
\* give only for two coins and an amount
CanQuote(cIn, cOut, amount) == Truthy(cIn) /\ Truthy(cOut) /\ Truthy(amount)

AccountChanges(a) ==
    /\ a # account
    /\ account' = a
    /\ UNCHANGED <<recipient, inputCoin, outputCoin, parsedAmount, allCoinBalances, trade>>
    /\ RenderDerived
    /\ UNCHANGED urlVars

BalancesChange(b) ==
    /\ b # allCoinBalances
    /\ allCoinBalances' = b
    /\ UNCHANGED <<account, recipient, inputCoin, outputCoin, parsedAmount, trade>>
    /\ RenderDerived
    /\ UNCHANGED urlVars

InputCoinChanges(c) ==
    /\ c # inputCoin
    /\ inputCoin' = c
    /\ trade' = TradeLoading
    /\ UNCHANGED <<account, recipient, outputCoin, parsedAmount, allCoinBalances>>
    /\ RenderDerived
    /\ UNCHANGED urlVars

OutputCoinChanges(c) ==
    /\ c # outputCoin
    /\ outputCoin' = c
    /\ trade' = TradeLoading
    /\ UNCHANGED <<account, recipient, inputCoin, parsedAmount, allCoinBalances>>
    /\ RenderDerived
    /\ UNCHANGED urlVars

ParsedAmountChanges(p) ==
    /\ p # parsedAmount
    /\ parsedAmount' = p
    /\ trade' = TradeLoading
    /\ UNCHANGED <<account, recipient, inputCoin, outputCoin, allCoinBalances>>
    /\ RenderDerived
    /\ UNCHANGED urlVars

RecipientChanges(r) ==
    /\ r # recipient
    /\ recipient' = r
    /\ UNCHANGED <<account, inputCoin, outputCoin, parsedAmount, allCoinBalances, trade>>
    /\ RenderDerived
    /\ UNCHANGED urlVars

QuoteChanges(q) ==
    /\ CanQuote(inputCoin, outputCoin, parsedAmount)
    /\ q # trade
    /\ trade' = q
    /\ UNCHANGED <<account, recipient, inputCoin, outputCoin, parsedAmount, allCoinBalances>>
    /\ RenderDerived
    /\ UNCHANGED urlVars

ParsedAmounts == {Undefined, Decimal(1)}

NextDerived ==
    \/ \E a \in Accounts \cup {Undefined} : AccountChanges(a)
    \/ \E b \in [CoinAddresses -> Amounts] : BalancesChange(b)
    \/ \E c \in Coins \cup {Null} : InputCoinChanges(c)
    \/ \E c \in Coins \cup {Null} : OutputCoinChanges(c)
    \/ \E p \in ParsedAmounts : ParsedAmountChanges(p)
    \/ \E r \in StoreRecipients : RecipientChanges(r)
    \/ \E q \in TradeResults \cup {TradeLoading} : QuoteChanges(q)

-----------------------------------------------------------------------------
(* The store's swap slice and the action handlers of useSwapActionHandlers *)

NoAction == [type |-> "none"]

\* reducer case replaceSwapState: the whole slice is replaced by the payload
replaceSwapState(payload) ==
    [INPUT |-> [currencyId |-> Coalesce(payload.inputCurrencyId, Null)],
     OUTPUT |-> [currencyId |-> Coalesce(payload.outputCurrencyId, Null)],
     typedValue |-> payload.typedValue,
     independentField |-> payload.field,
     recipient |-> payload.recipient]

Other(field) == IF field = INPUT THEN OUTPUT ELSE INPUT

\* reducer case selectCurrency: sets the currency of the field
selectCurrency(state, field, currencyId) ==
    [state EXCEPT ![field] = [currencyId |-> currencyId]]

\* reducer case switchCurrencies: the two sides, and the independent one, swap
switchCurrencies(state) ==
    [state EXCEPT !.INPUT = state.OUTPUT,
                  !.OUTPUT = state.INPUT,
                  !.independentField = Other(state.independentField)]

\* reducer case typeInput
typeInput(state, field, typedValue) ==
    [state EXCEPT !.independentField = field, !.typedValue = typedValue]

\* reducer case setRecipient
setRecipient(state, r) == [state EXCEPT !.recipient = r]

\* currency ids, typed values and recipients of the user's gestures
GestureCurrencies == {AddrA}

GestureTypedValues == {<<"2">>}

GestureRecipients == {Null, AddrB}

onCoinSelection(field, currency) ==
    /\ effectDeps # NoDeps
    /\ swap' = selectCurrency(swap, field, currency)
    /\ dispatched' = [type |-> "selectCurrency"]
    /\ UNCHANGED <<parsedQs, parsedSwapState, chainId, dispatchId, effectDeps>>
    /\ UNCHANGED derivedVars

onSwitchTokens ==
    /\ effectDeps # NoDeps
    /\ swap' = switchCurrencies(swap)
    /\ dispatched' = [type |-> "switchCurrencies"]
    /\ UNCHANGED <<parsedQs, parsedSwapState, chainId, dispatchId, effectDeps>>
    /\ UNCHANGED derivedVars

onUserInput(field, typedValue) ==
    /\ effectDeps # NoDeps
    /\ swap' = typeInput(swap, field, typedValue)
    /\ dispatched' = [type |-> "typeInput"]
    /\ UNCHANGED <<parsedQs, parsedSwapState, chainId, dispatchId, effectDeps>>
    /\ UNCHANGED derivedVars

onChangeRecipient(r) ==
    /\ effectDeps # NoDeps
    /\ swap' = setRecipient(swap, r)
    /\ dispatched' = [type |-> "setRecipient"]
    /\ UNCHANGED <<parsedQs, parsedSwapState, chainId, dispatchId, effectDeps>>
    /\ UNCHANGED derivedVars

-----------------------------------------------------------------------------
(* useDefaultsFromURLSearch *)

\* useChainId() before the chain is known
NoChain == 0

MaxChain == 2

ChainIds == 1..MaxChain

MaxDispatch == 2

DispatchIds == 1..MaxDispatch

UrlQueries ==
    {EmptyQuery,
     [EmptyQuery EXCEPT !.inputCurrency = AddrA, !.outputCurrency = AddrA],
     [EmptyQuery EXCEPT !.inputCurrency = AddrB, !.outputCurrency = AddrA,
                        !.exactAmount = Str(<<"1", ".", "5">>), !.recipient = AddrA],
     [EmptyQuery EXCEPT !.exactField = Str(<<"O", "U", "T", "P", "U", "T">>), !.exactAmount = Str(<<"1", "a", "b", "c">>),
                        !.recipient = NameEth],
     [EmptyQuery EXCEPT !.outputCurrency = AddrB, !.recipient = ShortAddr]}

DepsWithQueryMutant(dispatch, chain, parsed) == <<dispatch, chain, parsed>>

\* the effect's dependency list: [dispatch, chainId]
EffectDeps(dispatch, chain, parsed) == <<dispatch, chain>>

\* the action the effect dispatches
ReplaceAction(parsed) ==
    [type |-> "replaceSwapState",
     payload |-> [typedValue |-> parsed.typedValue,
                  field |-> parsed.independentField,
                  inputCurrencyId |-> Coalesce(parsed.INPUT.currencyId, Undefined),
                  outputCurrencyId |-> Coalesce(parsed.OUTPUT.currencyId, Undefined),
                  recipient |-> parsed.recipient]]

\* one render of useDefaultsFromURLSearch on the new hook values, and the
\* effect that follows it when a dependency differs from the last commit's
RenderDefaults ==
    /\ parsedSwapState' = queryParametersToSwapState(parsedQs')
    /\ effectDeps' = EffectDeps(dispatchId', chainId', parsedSwapState')
    /\ IF effectDeps' # effectDeps /\ chainId' # NoChain
       THEN /\ dispatched' = ReplaceAction(parsedSwapState')
            /\ swap' = replaceSwapState(dispatched'.payload)
       ELSE /\ dispatched' = NoAction
            /\ swap' = swap

Mount ==
    /\ effectDeps = NoDeps
    /\ UNCHANGED <<parsedQs, chainId, dispatchId>>
    /\ RenderDefaults
    /\ UNCHANGED derivedVars

ChainChanges(c) ==
    /\ effectDeps # NoDeps
    /\ c # chainId
    /\ chainId' = c
    /\ UNCHANGED <<parsedQs, dispatchId>>
    /\ RenderDefaults
    /\ UNCHANGED derivedVars

DispatchChanges(d) ==
    /\ effectDeps # NoDeps
    /\ d # dispatchId
    /\ dispatchId' = d
    /\ UNCHANGED <<parsedQs, chainId>>
    /\ RenderDefaults
    /\ UNCHANGED derivedVars

QueryChanges(q) ==
    /\ effectDeps # NoDeps
    /\ q # parsedQs
    /\ parsedQs' = q
    /\ UNCHANGED <<chainId, dispatchId>>
    /\ RenderDefaults
    /\ UNCHANGED derivedVars

NextUrl ==
    \/ Mount
    \/ \E c \in ChainIds \cup {NoChain} : ChainChanges(c)
    \/ \E d \in DispatchIds : DispatchChanges(d)
    \/ \E q \in UrlQueries : QueryChanges(q)
    \/ \E f \in {INPUT, OUTPUT} : \E c \in GestureCurrencies : onCoinSelection(f, c)
    \/ onSwitchTokens
    \/ \E f \in {INPUT, OUTPUT} : \E t \in GestureTypedValues : onUserInput(f, t)
    \/ \E r \in GestureRecipients : onChangeRecipient(r)

\* a direct call of the exported parser
CallQueryParametersToSwapState ==
    /\ parsedSwapState = NotRendered
    /\ parsedSwapState' = queryParametersToSwapState(parsedQs)
    /\ UNCHANGED <<parsedQs, chainId, dispatchId, effectDeps, swap, dispatched>>
    /\ UNCHANGED derivedVars

NextParse == CallQueryParametersToSwapState

-----------------------------------------------------------------------------
(* Initial states and specifications *)

InitialCoin == Coin("0x1::aptos_coin::AptosCoin", "APT")

InitDerivedVars ==
    /\ account = Undefined
    /\ recipient = Null
    /\ inputCoin = InitialCoin
    /\ outputCoin = Null
    /\ parsedAmount = Undefined
    /\ allCoinBalances = [a \in CoinAddresses |-> 0]
    /\ trade = TradeLoading
    /\ allowedSlippage = 0
    /\ memoDeps = InputErrorDeps(account, allowedSlippage, inputCoin, outputCoin,
                                 allCoinBalances, parsedAmount,
                                 ResolveTo(recipient, account), trade)
    /\ inputError = ComputeInputError(account, inputCoin, outputCoin, parsedAmount,
                                      ResolveTo(recipient, account),
                                      allCoinBalances, trade)

InitUrlVars(queries) ==
    /\ parsedQs \in queries
    /\ parsedSwapState = NotRendered
    /\ chainId \in ChainIds \cup {NoChain}
    /\ dispatchId = 1
    /\ effectDeps = NoDeps
    /\ swap = queryParametersToSwapState(parsedQs)
    /\ dispatched = NoAction

\* the derived view state under changing hook values
Init == InitDerivedVars /\ InitUrlVars({EmptyQuery}) /\ chainId = NoChain

Next == NextDerived

Spec == Init /\ [][Next]_vars

\* the initializer and the user's gestures on the store
InitUrl == InitDerivedVars /\ InitUrlVars(UrlQueries)

SpecUrl == InitUrl /\ [][NextUrl]_vars

\* the parser applied to every query of AllQueries
InitParse == InitDerivedVars /\ InitUrlVars(AllQueries) /\ chainId = NoChain

SpecParse == InitParse /\ [][NextParse]_vars

-----------------------------------------------------------------------------
(* Properties of useDerivedSwapInfo, checked under Spec *)

To == ResolveTo(recipient, account)

BalanceIn == CoinBalance(allCoinBalances, inputCoin)

BalanceFires == BalanceCheckFires(BalanceIn, MaximumAmountIn(trade))

InsufficientMessages == {InsufficientBalance(symbol(c)) : c \in Coins}

\* C1, as stated: with no connected account the surfaced inputError is
\* "Connect Wallet" whatever the other inputs are.
C1_AlwaysConnectWallet == ~Truthy(account) => inputError = ConnectWallet

\* C1, amended: with no connected account inputError is "Connect Wallet" unless
\* the balance comparison fires on a quote trade, and then it is the
\* insufficient-balance message; without a quote trade it is "Connect Wallet"
\* for every combination of the other inputs.
C1_ConnectWalletUnlessBalanceFires ==
    ~Truthy(account) =>
        /\ inputError \in {ConnectWallet} \cup InsufficientMessages
        /\ ~BalanceFires => inputError = ConnectWallet
        /\ trade.trade = Undefined => inputError = ConnectWallet

\* no account, a quote trade present, and yet "Connect Wallet" is surfaced
C1_Witness ==
    /\ ~Truthy(account)
    /\ trade.trade # Undefined
    /\ ~Truthy(To)
    /\ inputError = ConnectWallet

\* C2: with an account, both coins, a parsed amount and a quote whose
\* maximumAmountIn is numerically greater than the input coin's balance,
\* inputError is the insufficient-balance message.
C2_InsufficientWhenMaxExceedsBalance ==
    ( /\ Truthy(account)
      /\ Truthy(inputCoin)
      /\ Truthy(outputCoin)
      /\ Truthy(parsedAmount)
      /\ trade.trade # Undefined
      /\ trade.trade.v[1] > BalanceIn.v[1] )
        => inputError = InsufficientBalance(symbol(inputCoin))

\* the message of the first condition that holds, in the fixed order
FirstBlockingMessage ==
    IF ~Truthy(account) THEN ConnectWallet
    ELSE IF ~Truthy(inputCoin) \/ ~Truthy(outputCoin) THEN SelectACoin
    ELSE IF ~Truthy(parsedAmount) THEN EnterAnAmount
    ELSE IF ~Truthy(To) \/ ~Truthy(isAddress(To)) THEN EnterARecipient
    ELSE IF trade.state = NO_ROUTE_FOUND THEN NoRouteFound
    ELSE Undefined

\* C3: when the balance check does not fire, inputError is the message of the
\* first condition that holds in the order account, coins, amount, recipient,
\* route, and is undefined exactly when none holds.
C3_FirstConditionWins == ~BalanceFires => inputError = FirstBlockingMessage

\* two conditions hold at once and the earlier one is surfaced
C3_Witness ==
    /\ Truthy(account)
    /\ ~Truthy(outputCoin)
    /\ ~Truthy(To) \/ ~Truthy(isAddress(To))
    /\ inputError = SelectACoin

\* C9: the inputError returned by a render is the error rule on the inputs of
\* that render; with no earlier condition holding and the quote state
\* NO_ROUTE_FOUND it is "No route found".
C9_InputErrorIsCurrent ==
    /\ inputError = ComputeInputError(account, inputCoin, outputCoin, parsedAmount,
                                      To, allCoinBalances, trade)
    /\ ( /\ Truthy(account)
         /\ Truthy(inputCoin)
         /\ Truthy(outputCoin)
         /\ Truthy(parsedAmount)
         /\ Truthy(To) /\ Truthy(isAddress(To))
         /\ trade = [state |-> NO_ROUTE_FOUND, trade |-> Undefined] )
           => inputError = NoRouteFound

\* the quote state went to NO_ROUTE_FOUND, the trade staying absent, and the
\* render surfaced it
C9_Witness ==
    /\ trade = [state |-> NO_ROUTE_FOUND, trade |-> Undefined]
    /\ memoDeps[7] = Undefined
    /\ inputError = NoRouteFound

-----------------------------------------------------------------------------
(* Properties of queryParametersToSwapState, checked under SpecParse *)

Parsed == parsedSwapState # NotRendered

SanitisedInput == parseCurrencyFromURLParameter(parsedQs.inputCurrency)

SanitisedOutput == parseCurrencyFromURLParameter(parsedQs.outputCurrency)

SanitisedAmount == parseTokenAmountURLParameter(parsedQs.exactAmount)

\* C4: INPUT.currencyId is the native asset exactly when the sanitised input
\* currency, output currency and typed value are empty and the independent
\* field is INPUT; otherwise it is the sanitised input currency, null when
\* empty. The empty query yields the native asset and nothing else.
C4_NativeDefault ==
    Parsed =>
        LET allEmpty == /\ SanitisedInput = <<>>
                        /\ SanitisedOutput = <<>>
                        /\ SanitisedAmount = <<>>
                        /\ parsedSwapState.independentField = INPUT
        IN  /\ allEmpty <=> parsedSwapState.INPUT.currencyId = Str(NativeCoin)
            /\ ~allEmpty =>
                   parsedSwapState.INPUT.currencyId =
                       (IF SanitisedInput = <<>> THEN Null ELSE Str(SanitisedInput))
            /\ parsedQs = EmptyQuery =>
                   parsedSwapState = [INPUT |-> [currencyId |-> Str(NativeCoin)],
                                      OUTPUT |-> [currencyId |-> Null],
                                      typedValue |-> <<>>,
                                      independentField |-> INPUT,
                                      recipient |-> Null]

C4_Witness ==
    /\ Parsed
    /\ parsedQs = EmptyQuery
    /\ parsedSwapState.INPUT.currencyId = Str(NativeCoin)

\* C5: the returned state never has the same non-null currency on both sides:
\* identical non-empty sanitised currencies keep INPUT and null OUTPUT.
C5_NoSameAssetSwap ==
    Parsed =>
        /\ ~ ( /\ parsedSwapState.INPUT.currencyId # Null
               /\ parsedSwapState.INPUT.currencyId = parsedSwapState.OUTPUT.currencyId )
        /\ (SanitisedInput # <<>> /\ SanitisedInput = SanitisedOutput) =>
               /\ parsedSwapState.INPUT.currencyId = Str(SanitisedInput)
               /\ parsedSwapState.OUTPUT.currencyId = Null

C5_Witness ==
    /\ Parsed
    /\ parsedQs.inputCurrency = AddrA
    /\ parsedQs.outputCurrency = AddrA
    /\ parsedSwapState.INPUT.currencyId = AddrA
    /\ parsedSwapState.OUTPUT.currencyId = Null

\* digits with at most one dot and at least one digit
IsMantissa(s, from, to) ==
    /\ from <= to
    /\ AllIn(s, from, to, Digit \cup {"."})
    /\ Cardinality({i \in from..to : s[i] = "."}) <= 1
    /\ \E i \in from..to : s[i] \in Digit

\* e or E, an optional sign, digits
IsExponent(s, from, to) ==
    /\ from <= to
    /\ s[from] \in {"e", "E"}
    /\ LET d == IF from + 1 <= to /\ s[from + 1] \in {"+", "-"} THEN from + 2 ELSE from + 1
       IN  d <= to /\ AllIn(s, d, to, Digit)

\* the whole string is a decimal numeral: sign, mantissa, exponent
IsFiniteDecimal(s) ==
    LET b == IF Len(s) >= 1 /\ s[1] \in {"+", "-"} THEN 2 ELSE 1
    IN  \E e \in (b + 1)..(Len(s) + 1) :
            /\ IsMantissa(s, b, e - 1)
            /\ e = Len(s) + 1 \/ IsExponent(s, e, Len(s))

\* C6: exactAmount becomes typedValue only if the whole string is a finite
\* decimal number; every other exactAmount gives the empty typedValue.
C6_OnlyFiniteDecimalAccepted ==
    Parsed =>
        IF IsString(parsedQs.exactAmount) /\ IsFiniteDecimal(parsedQs.exactAmount.v)
        THEN parsedSwapState.typedValue = parsedQs.exactAmount.v
        ELSE parsedSwapState.typedValue = <<>>

\* the string is "output" up to the case of its letters
IsOutputIgnoringCase(s) ==
    /\ Len(s) = 6
    /\ \A i \in 1..6 : s[i] \in {<<"o", "u", "t", "p", "u", "t">>[i],
                                <<"O", "U", "T", "P", "U", "T">>[i]}

\* C7: independentField is OUTPUT exactly when exactField is a string equal to
\* "output" ignoring case, and INPUT for every other exactField.
C7_ExactFieldOutput ==
    Parsed =>
        /\ parsedSwapState.independentField \in {INPUT, OUTPUT}
        /\ parsedSwapState.independentField = OUTPUT <=>
               (IsString(parsedQs.exactField) /\ IsOutputIgnoringCase(parsedQs.exactField.v))

C7_Witness ==
    /\ Parsed
    /\ parsedQs.exactField = Str(<<"o", "u", "t", "P", "u", "t">>)
    /\ parsedSwapState.independentField = OUTPUT

-----------------------------------------------------------------------------
(* Properties of useDefaultsFromURLSearch, checked under SpecUrl *)

Replaced(action) == action.type = "replaceSwapState"

\* C8: a step dispatches replaceSwapState only if the chain id is available
\* after it and the chain id or the dispatch identity differs from the last
\* commit's (the first commit included); a step that changes the query string
\* alone dispatches no replace and leaves the store as it is.
C8_ReplaceOnlyOnChainChange ==
    [][ /\ Replaced(dispatched') =>
               /\ chainId' # NoChain
               /\ \/ effectDeps = NoDeps
                  \/ chainId' # chainId
                  \/ dispatchId' # dispatchId
        /\ ( /\ effectDeps # NoDeps
             /\ parsedQs' # parsedQs
             /\ chainId' = chainId
             /\ dispatchId' = dispatchId )
               => ~Replaced(dispatched') /\ swap' = swap ]_vars

\* the query string changed after the user's edit, the chain id being
\* available, and the edit is still in the store
C8_Witness ==
    /\ effectDeps # NoDeps
    /\ chainId # NoChain
    /\ dispatched = NoAction
    /\ swap.typedValue = <<"2">>
    /\ parsedSwapState.typedValue # <<"2">>
    /\ swap.recipient = AddrB
    /\ parsedSwapState.recipient # AddrB

\* C10: a recipient the URL parser accepted and the initializer put in the
\* store never gives "Enter a recipient" once an account is connected, both
\* coins are selected and an amount is parsed.
C10_UrlRecipientIsValid ==
    (Replaced(dispatched) /\ swap.recipient # Null) =>
        \A a \in Accounts : \A cIn \in Coins : \A cOut \in Coins \ {cIn} :
            ComputeInputError(a, cIn, cOut, Decimal(1), ResolveTo(swap.recipient, a),
                              allCoinBalances, TradeLoading) # EnterARecipient

====
